---- MODULE Spec2Model ----
(***************************************************************************)
(* JsonExplorer: the DataManager of src/json_explorer/explorer.py, the     *)
(* navigator over a parsed JSON document.  Its state is (data, path,       *)
(* pointer); its operations are move_up, move_down, increment_pointer and  *)
(* decrement_pointer.  A Python exception raised by an operation leaves    *)
(* the DataManager as it was at the raise and is handed to the caller; it  *)
(* is recorded in exc.  Spec is the DataManager under any caller, LoopSpec *)
(* the DataRenderer's render/input loop driving it, and FormatSpec the     *)
(* formatting of a value.                                                  *)
(*                                                                         *)
(* Python values are records [t, kids, s, n]: t is the Python type, kids   *)
(* the (key, value) items of a dict in insertion order or the elements of  *)
(* a list, s the characters of a str (as code points), n the number of an  *)
(* int or bool.  Strings are sequences of code points so that formatting   *)
(* and string comparison are computed, not assumed.                        *)
(***************************************************************************)
EXTENDS Integers, Sequences, FiniteSets, TLC

VARIABLES data, path, pointer, op, exc, before, marks, streak, origin,
          pc, terminal, keystroke, applied, rendered, text

vars == <<data, path, pointer, op, exc, before, marks, streak, origin,
          pc, terminal, keystroke, applied, rendered, text>>

(***************************************************************************)
(* Bounds of the documents the model explores.                             *)
(***************************************************************************)
MaxNodes == 4

(***************************************************************************)
(* Python values                                                           *)
(***************************************************************************)
PyStr(chars) == [t |-> "str", kids |-> <<>>, s |-> chars, n |-> 0]
PyInt(i) == [t |-> "int", kids |-> <<>>, s |-> <<>>, n |-> i]
PyBool(b) == [t |-> "bool", kids |-> <<>>, s |-> <<>>, n |-> IF b THEN 1 ELSE 0]
PyNone == [t |-> "NoneType", kids |-> <<>>, s |-> <<>>, n |-> 0]
PyList(elems) == [t |-> "list", kids |-> [i \in 1..Len(elems) |-> [k |-> PyNone, v |-> elems[i]]], s |-> <<>>, n |-> 0]
PyDict(items) == [t |-> "dict", kids |-> items, s |-> <<>>, n |-> 0]

\* DataConstants.LEAF_NODE = -1, an Enum member (not an int)
LEAF_NODE == [t |-> "DataConstants", kids |-> <<>>, s |-> <<>>, n |-> -1]

\* isinstance(value, (dict, list))
IsContainer(value) == value.t \in {"dict", "list"}

(***************************************************************************)
(* Text: code points of the characters the formatting produces.            *)
(***************************************************************************)
Quote == 34
Zero == 48
TxtDictionary == <<68, 105, 99, 116, 105, 111, 110, 97, 114, 121, 44, 32>>
TxtKeys == <<32, 107, 101, 121, 115>>
TxtOneKey == <<68, 105, 99, 116, 105, 111, 110, 97, 114, 121, 44, 32, 49, 32, 107, 101, 121>>
TxtList == <<76, 105, 115, 116, 44, 32>>
TxtEntries == <<32, 101, 110, 116, 114, 105, 101, 115>>
TxtOneEntry == <<76, 105, 115, 116, 44, 32, 49, 32, 101, 110, 116, 114, 121>>
TxtTrue == <<84, 114, 117, 101>>
TxtFalse == <<70, 97, 108, 115, 101>>
TxtNone == <<78, 111, 110, 101>>
TxtLeafNode == <<68, 97, 116, 97, 67, 111, 110, 115, 116, 97, 110, 116, 115, 46, 76, 69, 65, 70, 95, 78, 79, 68, 69>>

\* str(n) of a non-negative int: its decimal digits
RECURSIVE Digits(_)
Digits(i) == IF i < 10 THEN <<Zero + i>> ELSE Digits(i \div 10) \o <<Zero + (i % 10)>>

\* str(value) of a value that is no str, dict or list
str(value) ==
    CASE value.t = "int" -> Digits(value.n)
      [] value.t = "bool" -> IF value.n = 1 THEN TxtTrue ELSE TxtFalse
      [] value.t = "NoneType" -> TxtNone
      [] OTHER -> TxtLeafNode

\* stringify_value, were the singular forms left out
stringify_value_plural_only(value) ==
    IF value.t = "str" THEN <<Quote>> \o value.s \o <<Quote>>
    ELSE IF value.t = "dict" THEN TxtDictionary \o Digits(Len(value.kids)) \o TxtKeys
    ELSE IF value.t = "list" THEN TxtList \o Digits(Len(value.kids)) \o TxtEntries
    ELSE str(value)

\* DataValue.stringify_value
stringify_value(value) ==
    IF value.t = "str" THEN <<Quote>> \o value.s \o <<Quote>>
    ELSE IF value.t = "dict" THEN
        IF Len(value.kids) # 1 THEN TxtDictionary \o Digits(Len(value.kids)) \o TxtKeys
        ELSE TxtOneKey
    ELSE IF value.t = "list" THEN
        IF Len(value.kids) # 1 THEN TxtList \o Digits(Len(value.kids)) \o TxtEntries
        ELSE TxtOneEntry
    ELSE str(value)

\* DataValue(content): content and as_string (content_type is content.t)
DataValue(content) == [content |-> content, as_string |-> stringify_value(content)]

\* Python's < on str: by code point, a proper prefix is smaller
RECURSIVE StrLess(_, _)
StrLess(a, b) ==
    IF b = <<>> THEN FALSE
    ELSE IF a = <<>> THEN TRUE
    ELSE IF Head(a) # Head(b) THEN Head(a) < Head(b)
    ELSE StrLess(Tail(a), Tail(b))

(***************************************************************************)
(* Documents: every JSON value of at most MaxNodes nodes over the scalars  *)
(* below, an object's keys taken in insertion order from KeyPool, the two  *)
(* documents the specification works through and one deeper array.         *)
(***************************************************************************)
Scalars == {PyInt(1), PyStr(<<120>>)}

\* "b", "a", "c", "a!", "d", "e": insertion order differs from sorted order
KeyPool == << <<98>>, <<97>>, <<99>>, <<97, 33>>, <<100>>, <<101>> >>

DictOf(f) == PyDict([i \in 1..Len(f) |-> [k |-> PyStr(KeyPool[i]), v |-> f[i]]])

RECURSIVE Trees(_), Forests(_)
\* the values of exactly size nodes
Trees(size) ==
    IF size = 1 THEN Scalars \cup {PyList(<<>>), PyDict(<<>>)}
    ELSE {PyList(f) : f \in Forests(size - 1)}
         \cup {DictOf(f) : f \in {g \in Forests(size - 1) : Len(g) <= Len(KeyPool)}}
\* the sequences of values of size nodes in all
Forests(size) ==
    IF size = 0 THEN {<<>>}
    ELSE UNION {{<<t>> \o f : t \in Trees(j), f \in Forests(size - j)} : j \in 1..size}

\* {"user": {"name": "Ann", "tags": ["x", "y"]}}
UserDoc ==
    PyDict(<<[k |-> PyStr(<<117, 115, 101, 114>>),
              v |-> PyDict(<<[k |-> PyStr(<<110, 97, 109, 101>>), v |-> PyStr(<<65, 110, 110>>)],
                             [k |-> PyStr(<<116, 97, 103, 115>>),
                              v |-> PyList(<<PyStr(<<120>>), PyStr(<<121>>)>>)]>>)]>>)

\* {"b": 1, "a": [1, 2], "c": {"x": 1}}
SortDoc ==
    PyDict(<<[k |-> PyStr(<<98>>), v |-> PyInt(1)],
             [k |-> PyStr(<<97>>), v |-> PyList(<<PyInt(1), PyInt(2)>>)],
             [k |-> PyStr(<<99>>), v |-> PyDict(<<[k |-> PyStr(<<120>>), v |-> PyInt(1)]>>)]>>)

\* [1, ["x", [[], {}, 1], {"k": [1]}], []]
DeepDoc ==
    PyList(<<PyInt(1),
             PyList(<<PyStr(<<120>>),
                      PyList(<<PyList(<<>>), PyDict(<<>>), PyInt(1)>>),
                      PyDict(<<[k |-> PyStr(<<107>>), v |-> PyList(<<PyInt(1)>>)]>>)>>),
             PyList(<<>>)>>)

\* null and true
OtherScalars == {PyNone, PyBool(TRUE)}

Documents == UNION {Trees(size) : size \in 1..MaxNodes} \cup {UserDoc, SortDoc, DeepDoc} \cup OtherScalars

(***************************************************************************)
(* DataManager                                                             *)
(***************************************************************************)
Returned(value) == [exc |-> "none", value |-> value]
Raised(exception) == [exc |-> exception, value |-> <<>>]

\* DataManager._resolve_path: the node the selectors of path lead to, or
\* sys.exit(1)
RECURSIVE _resolve_path(_, _)
_resolve_path(cdata, p) ==
    IF p = <<>> THEN Returned(cdata)
    ELSE LET entry == Head(p).key IN
        IF cdata.t = "list" THEN
            IF entry.t \in {"int", "bool"} /\ entry.n < Len(cdata.kids)
            THEN _resolve_path(cdata.kids[entry.n + 1].v, Tail(p))
            ELSE Raised("SystemExit")
        ELSE IF cdata.t = "dict" THEN
            IF \E i \in 1..Len(cdata.kids) : cdata.kids[i].k = entry
            THEN _resolve_path(cdata.kids[CHOOSE i \in 1..Len(cdata.kids) : cdata.kids[i].k = entry].v, Tail(p))
            ELSE Raised("SystemExit")
        ELSE Raised("SystemExit")

\* @dataclass gives DataValue an __eq__ and, not being frozen, sets its
\* __hash__ to None: hash(DataValue(...)) raises TypeError
DataValue_hash(dv) == Raised("TypeError")

\* {DataValue(key): DataValue(value) for key, value in cdata.items()}:
\* each insertion hashes its key
DataValue_dict(items) ==
    LET pairs == [i \in 1..Len(items) |-> [key |-> DataValue(items[i].k), value |-> DataValue(items[i].v)]]
        failed == {i \in 1..Len(items) : DataValue_hash(pairs[i].key).exc # "none"}
    IN IF failed # {}
       THEN DataValue_hash(pairs[CHOOSE i \in failed : \A j \in failed : i <= j].key)
       ELSE Returned(pairs)

\* get_data.sort_dv_item
sort_dv_item(item) ==
    IF item.value.content.t = "dict" THEN 2
    ELSE IF item.value.content.t = "list" THEN 1
    ELSE 0

\* sorted(items, key=lambda item: item[0].as_string): a stable sort
sorted_by_as_string(items) ==
    LET Before(i, j) == \/ StrLess(items[i].key.as_string, items[j].key.as_string)
                        \/ items[i].key.as_string = items[j].key.as_string /\ i < j
        Place(i) == 1 + Cardinality({j \in 1..Len(items) : Before(j, i)})
    IN [q \in 1..Len(items) |-> items[CHOOSE i \in 1..Len(items) : Place(i) = q]]

\* sorted(items, key=sort_dv_item): a stable sort
sorted_by_sort_dv_item(items) ==
    LET Before(i, j) == \/ sort_dv_item(items[i]) < sort_dv_item(items[j])
                        \/ sort_dv_item(items[i]) = sort_dv_item(items[j]) /\ i < j
        Place(i) == 1 + Cardinality({j \in 1..Len(items) : Before(j, i)})
    IN [q \in 1..Len(items) |-> items[CHOOSE i \in 1..Len(items) : Place(i) = q]]

\* get_data on a list, were it to count from 1 (enumerate(cdata, 1))
list_items_from_one(cdata) ==
    [i \in 1..Len(cdata.kids) |-> [key |-> DataValue(PyInt(i)), value |-> DataValue(cdata.kids[i].v)]]

\* get_data on a list: [(DataValue(index), DataValue(value)) for index, value in enumerate(cdata)]
list_items(cdata) ==
    [i \in 1..Len(cdata.kids) |-> [key |-> DataValue(PyInt(i - 1)), value |-> DataValue(cdata.kids[i].v)]]

\* get_data on any other value: [(DataValue(DataConstants.LEAF_NODE), DataValue(cdata))]
leaf_items(cdata) == <<[key |-> DataValue(LEAF_NODE), value |-> DataValue(cdata)]>>

\* DataManager.get_data: the rows of the current node, or the exception
get_data(d, p) ==
    LET r == _resolve_path(d, p) IN
    IF r.exc # "none" THEN r
    ELSE IF r.value.t = "dict" THEN
        LET cdata == DataValue_dict(r.value.kids) IN
        IF cdata.exc # "none" THEN cdata
        ELSE Returned(sorted_by_sort_dv_item(sorted_by_as_string(cdata.value)))
    ELSE IF r.value.t = "list" THEN Returned(list_items(r.value))
    ELSE Returned(leaf_items(r.value))

\* DataManager.get_keys
get_keys(d, p) ==
    LET r == get_data(d, p) IN
    IF r.exc # "none" THEN r ELSE Returned([i \in 1..Len(r.value) |-> r.value[i].key])

\* the result of an operation: the exception it raised and the path and
\* pointer it leaves
Outcome(e, p, c) == [exc |-> e, path |-> p, pointer |-> c]

\* move_up: self.path[-1][1] if len(self.path) > 0 else 0
move_up_pointer(p) == IF Len(p) > 0 THEN p[Len(p)].pointer ELSE 0

\* move_up: the path it leaves
move_up_path(p) == SubSeq(p, 1, Len(p) - 1)

\* DataManager.move_up
move_up_outcome(d, p, c) ==
    IF Len(p) > 0 THEN Outcome("none", move_up_path(p), move_up_pointer(p))
    ELSE Outcome("none", p, c)

\* move_down, were it to remember the key as displayed (key.as_string)
move_down_path_as_string(p, key, c) == Append(p, [key |-> PyStr(key.as_string), pointer |-> c])

\* move_down, were it to remember the pointer after its reset to 0
move_down_path_forgets_pointer(p, key, c) == Append(p, [key |-> key.content, pointer |-> 0])

\* move_down: self.path.append((key.content, self.pointer))
move_down_path(p, key, c) == Append(p, [key |-> key.content, pointer |-> c])

\* move_down, were it to enter whatever the row holds
move_down_enters_any(value) == TRUE

\* move_down: isinstance(value.content, (dict, list))
move_down_enters(value) == IsContainer(value.content)

\* DataManager.move_down
move_down_outcome(d, p, c) ==
    LET r == get_data(d, p) IN
    IF r.exc # "none" THEN Outcome(r.exc, p, c)
    ELSE IF c >= Len(r.value) THEN Outcome("IndexError", p, c)
    ELSE LET key == r.value[c + 1].key
             value == r.value[c + 1].value
         IN IF key.content = LEAF_NODE THEN Outcome("none", p, c)
            ELSE IF move_down_enters(value) THEN Outcome("none", move_down_path(p, key, c), 0)
            ELSE Outcome("none", p, c)

\* increment_pointer, were it not to wrap
increment_value_no_wrap(c, len) == c + 1

\* increment_pointer: (self.pointer + 1) % len
increment_value(c, len) == (c + 1) % len

\* DataManager.increment_pointer
increment_pointer_outcome(d, p, c) ==
    LET r == get_keys(d, p) IN
    IF r.exc # "none" THEN Outcome(r.exc, p, c)
    ELSE IF Len(r.value) = 0 THEN Outcome("ZeroDivisionError", p, c)
    ELSE Outcome("none", p, increment_value(c, Len(r.value)))

\* decrement_pointer: (self.pointer - 1) % len
decrement_value(c, len) == (c - 1) % len

\* DataManager.decrement_pointer
decrement_pointer_outcome(d, p, c) ==
    LET r == get_keys(d, p) IN
    IF r.exc # "none" THEN Outcome(r.exc, p, c)
    ELSE IF Len(r.value) = 0 THEN Outcome("ZeroDivisionError", p, c)
    ELSE Outcome("none", p, decrement_value(c, Len(r.value)))

\* the current node, and the rows get_data arranges for a node
Node == _resolve_path(data, path).value

Rows(cdata) ==
    IF cdata.t = "dict" THEN
        sorted_by_sort_dv_item(sorted_by_as_string(
            [i \in 1..Len(cdata.kids) |-> [key |-> DataValue(cdata.kids[i].k), value |-> DataValue(cdata.kids[i].v)]]))
    ELSE IF cdata.t = "list" THEN list_items(cdata)
    ELSE leaf_items(cdata)

rowCount == Len(Rows(Node))

(***************************************************************************)
(* The state machine.  Besides the DataManager's data, path and pointer,   *)
(* the state records the history the properties speak of: op, the last     *)
(* operation called; exc, the exception it raised; before, the (path,      *)
(* pointer) it was called in; marks, the pointer at each move_down that    *)
(* entered a node and has not been left since; streak and origin, the      *)
(* number of consecutive calls of the same cursor operation and the        *)
(* pointer they started from (counted afresh after a full turn).           *)
(***************************************************************************)
\* DataManager.__init__(data): path [] and pointer 0
DataManager_init ==
    /\ data \in Documents
    /\ path = <<>>
    /\ pointer = 0
    /\ op = "__init__"
    /\ exc = "none"
    /\ before = [path |-> <<>>, pointer |-> 0]
    /\ marks = <<>>
    /\ streak = 0
    /\ origin = 0

\* no DataRenderer: the DataManager is driven by its caller
Init ==
    /\ DataManager_init
    /\ pc = "caller"
    /\ terminal = "shell"
    /\ keystroke = "none"
    /\ applied = 0
    /\ rendered = FALSE
    /\ text = <<>>

\* get_data, were it to sort the list it is given in place
\* (cdata.sort(key=sort_dv_item))
document_sorted_in_place(d, p) ==
    IF p = <<>> /\ d.t = "list"
    THEN LET items == sorted_by_sort_dv_item(list_items(d))
         IN [d EXCEPT !.kids = [i \in 1..Len(items) |-> [k |-> PyNone, v |-> items[i].value.content]]]
    ELSE d

\* the document after a call of get_data: the dict comprehension, sorted()
\* and the list comprehension build new objects and leave self.data alone
document_after_get_data(d, p) == d

Apply(name, outcome, document) ==
    /\ path' = outcome.path
    /\ pointer' = outcome.pointer
    /\ exc' = outcome.exc
    /\ op' = name
    /\ before' = [path |-> path, pointer |-> pointer]
    /\ data' = document
    /\ UNCHANGED <<pc, terminal, keystroke, applied, rendered, text>>

Turn(name) ==
    IF op = name /\ streak < rowCount
    THEN streak' = streak + 1 /\ origin' = origin
    ELSE streak' = 1 /\ origin' = pointer

move_up ==
    /\ Apply("move_up", move_up_outcome(data, path, pointer), data)
    /\ marks' = IF Len(path) > 0 THEN SubSeq(marks, 1, Len(marks) - 1) ELSE marks
    /\ streak' = 0 /\ origin' = 0

move_down ==
    /\ Apply("move_down", move_down_outcome(data, path, pointer), document_after_get_data(data, path))
    /\ marks' = IF Len(path') > Len(path) THEN Append(marks, pointer) ELSE marks
    /\ streak' = 0 /\ origin' = 0

increment_pointer ==
    /\ Apply("increment_pointer", increment_pointer_outcome(data, path, pointer), document_after_get_data(data, path))
    /\ Turn("increment_pointer")
    /\ UNCHANGED marks

decrement_pointer ==
    /\ Apply("decrement_pointer", decrement_pointer_outcome(data, path, pointer), document_after_get_data(data, path))
    /\ Turn("decrement_pointer")
    /\ UNCHANGED marks

\* a caller's call of get_data: it changes nothing, and raises what get_data raises
call_get_data ==
    /\ Apply("get_data", Outcome(get_data(data, path).exc, path, pointer), document_after_get_data(data, path))
    /\ UNCHANGED <<marks, streak, origin>>

\* a caller's call of get_keys
call_get_keys ==
    /\ Apply("get_keys", Outcome(get_keys(data, path).exc, path, pointer), document_after_get_data(data, path))
    /\ UNCHANGED <<marks, streak, origin>>

\* DataManager.get_path
get_path(p) == [i \in 1..Len(p) |-> DataValue(p[i].key)]

\* a caller's call of get_path: it reads self.path only
call_get_path ==
    /\ Apply("get_path", Outcome("none", path, pointer), data)
    /\ UNCHANGED <<marks, streak, origin>>

Next ==
    \/ move_up \/ move_down \/ increment_pointer \/ decrement_pointer
    \/ call_get_data \/ call_get_keys \/ call_get_path

Spec == Init /\ [][Next]_vars

TypeOK ==
    /\ pointer \in Nat
    /\ exc \in {"none", "TypeError", "ZeroDivisionError", "IndexError", "SystemExit"}

(***************************************************************************)
(* DataRenderer: DataRenderer(DataManager(json_dict)) initialises curses   *)
(* and runs main_loop inside try/finally.  pc is the statement about to    *)
(* run, terminal the mode of the user's terminal, keystroke the key getch  *)
(* returned last; an exception propagating out of main_loop is in exc.     *)
(* applied counts the DataManager operations called since the screen was   *)
(* last drawn and rendered tells whether the screen shows the current      *)
(* state.  The terminal is taken to accept every draw.                     *)
(***************************************************************************)
\* what window.getch() can return: the four arrow keys, ord('q') and other keys
Keys == {"KEY_UP", "KEY_DOWN", "KEY_LEFT", "KEY_RIGHT", "q", "x", "KEY_RESIZE"}

TxtRoot == <<114, 111, 111, 116>>
Slash == 47

RECURSIVE join(_)
\* join, were 'root' left out when the path is not empty
join_without_root(parts) ==
    IF Len(parts) = 0 THEN <<>>
    ELSE IF Len(parts) = 1 THEN parts[1]
    ELSE join(Tail(parts))

\* '/'.join(parts)
join(parts) ==
    IF Len(parts) = 0 THEN <<>>
    ELSE IF Len(parts) = 1 THEN parts[1]
    ELSE parts[1] \o <<Slash>> \o join(Tail(parts))

\* update_screen: '/'.join(['root'] + [entry.as_string for entry in self.dtm.get_path()])
path_str(p) == join(<<TxtRoot>> \o [i \in 1..Len(get_path(p)) |-> get_path(p)[i].as_string])

\* update_screen: the exception it raises, from get_keys or get_data
update_screen_outcome(d, p) ==
    IF get_keys(d, p).exc # "none" THEN get_keys(d, p).exc ELSE get_data(d, p).exc

\* __init__, were main_loop not inside try/finally: kill_curses only after a
\* normal return
unwind_without_finally(e) == IF e = "none" THEN "kill_curses" ELSE "exit"

\* __init__: try: self.main_loop() finally: self.kill_curses(), on break and
\* on every exception
unwind(e) == "kill_curses"

\* main_loop, were it to draw the screen once before the loop only
after_handle_keystroke_no_redraw(e) == IF e # "none" THEN unwind(e) ELSE "getch"

\* main_loop: where control goes after each of its statements
after_update_screen(e) == IF e # "none" THEN unwind(e) ELSE "getch"
after_getch(key) == IF key = "q" THEN unwind("none") ELSE "handle_keystroke"
after_handle_keystroke(e) == IF e # "none" THEN unwind(e) ELSE "update_screen"

\* handle_keystroke, were the Up and Down branches exchanged
handle_keystroke_calls_swapped(key) ==
    IF key = "KEY_UP" THEN "increment_pointer"
    ELSE IF key = "KEY_DOWN" THEN "decrement_pointer"
    ELSE IF key = "KEY_LEFT" THEN "move_up"
    ELSE IF key = "KEY_RIGHT" THEN "move_down"
    ELSE "none"

\* handle_keystroke: the DataManager method a key calls
handle_keystroke_calls(key) ==
    IF key = "KEY_UP" THEN "decrement_pointer"
    ELSE IF key = "KEY_DOWN" THEN "increment_pointer"
    ELSE IF key = "KEY_LEFT" THEN "move_up"
    ELSE IF key = "KEY_RIGHT" THEN "move_down"
    ELSE "none"

\* the outcome of the DataManager method of that name
method_outcome(name, d, p, c) ==
    CASE name = "decrement_pointer" -> decrement_pointer_outcome(d, p, c)
      [] name = "increment_pointer" -> increment_pointer_outcome(d, p, c)
      [] name = "move_up" -> move_up_outcome(d, p, c)
      [] name = "move_down" -> move_down_outcome(d, p, c)
      [] OTHER -> Outcome("none", p, c)

\* main(): DataRenderer(DataManager(json_dict))
LoopInit ==
    /\ DataManager_init
    /\ pc = "init_curses"
    /\ terminal = "shell"
    /\ keystroke = "none"
    /\ applied = 0
    /\ rendered = FALSE
    /\ text = <<>>

init_curses ==
    /\ pc = "init_curses"
    /\ terminal' = "curses"
    /\ pc' = "update_screen"
    /\ UNCHANGED <<data, path, pointer, op, exc, before, marks, streak, origin, keystroke, applied, rendered, text>>

update_screen ==
    /\ pc = "update_screen"
    /\ exc' = update_screen_outcome(data, path)
    /\ op' = "update_screen"
    /\ text' = IF exc' = "none" THEN path_str(path) ELSE text
    /\ rendered' = (exc' = "none")
    /\ applied' = IF exc' = "none" THEN 0 ELSE applied
    /\ pc' = after_update_screen(exc')
    /\ UNCHANGED <<data, path, pointer, before, marks, streak, origin, terminal, keystroke>>

getch ==
    /\ pc = "getch"
    /\ \E key \in Keys : keystroke' = key
    /\ pc' = after_getch(keystroke')
    /\ UNCHANGED <<data, path, pointer, op, exc, before, marks, streak, origin, terminal, applied, rendered, text>>

\* Ctrl-C while getch blocks (cbreak leaves the interrupt key on): KeyboardInterrupt
getch_interrupted ==
    /\ pc = "getch"
    /\ exc' = "KeyboardInterrupt"
    /\ op' = "getch"
    /\ pc' = unwind(exc')
    /\ UNCHANGED <<data, path, pointer, before, marks, streak, origin, terminal, keystroke, applied, rendered, text>>

handle_keystroke ==
    /\ pc = "handle_keystroke"
    /\ LET name == handle_keystroke_calls(keystroke)
           outcome == method_outcome(name, data, path, pointer)
       IN /\ path' = outcome.path
          /\ pointer' = outcome.pointer
          /\ exc' = outcome.exc
          /\ op' = name
          /\ before' = [path |-> path, pointer |-> pointer]
          /\ applied' = IF name = "none" THEN applied ELSE applied + 1
          /\ rendered' = IF name = "none" THEN rendered ELSE FALSE
          /\ pc' = after_handle_keystroke(outcome.exc)
    /\ UNCHANGED <<data, marks, streak, origin, terminal, keystroke, text>>

kill_curses ==
    /\ pc = "kill_curses"
    /\ terminal' = "restored"
    /\ pc' = "exit"
    /\ UNCHANGED <<data, path, pointer, op, exc, before, marks, streak, origin, keystroke, applied, rendered, text>>

LoopNext ==
    \/ init_curses \/ update_screen \/ getch \/ getch_interrupted
    \/ handle_keystroke \/ kill_curses

LoopSpec == LoopInit /\ [][LoopNext]_vars

\* the program runs every statement it reaches; only getch waits for the user
LoopFairness ==
    /\ WF_vars(init_curses)
    /\ WF_vars(update_screen)
    /\ WF_vars(handle_keystroke)
    /\ WF_vars(kill_curses)

FairLoopSpec == LoopInit /\ [][LoopNext]_vars /\ LoopFairness

(***************************************************************************)
(* Formatting: DataValue.stringify_value applied to a value.               *)
(***************************************************************************)
\* "hello", 'a"b' and ""
OtherStrings == {PyStr(<<104, 101, 108, 108, 111>>), PyStr(<<97, 34, 98>>), PyStr(<<>>)}

\* the value to format: the document or a string
FormatInit ==
    /\ data \in Documents \cup OtherStrings
    /\ path = <<>> /\ pointer = 0 /\ op = "__init__" /\ exc = "none"
    /\ before = [path |-> <<>>, pointer |-> 0]
    /\ marks = <<>> /\ streak = 0 /\ origin = 0
    /\ pc = "caller" /\ terminal = "shell" /\ keystroke = "none"
    /\ applied = 0 /\ rendered = FALSE /\ text = <<>>

\* DataValue(data).as_string
stringify ==
    /\ op = "__init__"
    /\ text' = DataValue(data).as_string
    /\ op' = "stringify_value"
    /\ UNCHANGED <<data, path, pointer, exc, before, marks, streak, origin, pc, terminal, keystroke, applied, rendered>>

FormatSpec == FormatInit /\ [][stringify]_vars

(***************************************************************************)
(* Properties                                                              *)
(***************************************************************************)
\* the node a (path, pointer) pair stands in, whether its cursor is on a row,
\* and that row
NodeAt(p) == _resolve_path(data, p).value
OnRow(p, c) == c < Len(Rows(NodeAt(p)))
RowAt(p, c) == Rows(NodeAt(p))[c + 1]
HoldsContainer(p, c) == LET rows == Rows(NodeAt(p)) IN c < Len(rows) /\ IsContainer(rows[c + 1].value.content)
HoldsScalar(p, c) == LET rows == Rows(NodeAt(p)) IN c < Len(rows) /\ ~IsContainer(rows[c + 1].value.content)
HoldsLeaf(p, c) == LET rows == Rows(NodeAt(p)) IN c < Len(rows) /\ rows[c + 1].key.content = LEAF_NODE

\* C1: round trip.  When the row under the cursor holds an object or array,
\* move_down immediately followed by move_up restores exactly the (path,
\* pointer) pair that held before move_down.
C1_RoundTrip ==
    [][(/\ op = "move_down"
        /\ HoldsContainer(before.path, before.pointer)
        /\ op' = "move_up")
       => (path' = before.path /\ pointer' = before.pointer)]_vars

\* C2: cursor bounds.  In every reachable state 0 <= pointer < rowCount when
\* the current node's row list is non-empty, and pointer = 0 when it is empty.
C2_CursorBounds ==
    IF rowCount > 0 THEN 0 <= pointer /\ pointer < rowCount ELSE pointer = 0

\* a decrement has wrapped the cursor to the last row of a node below the root
C2_Witness ==
    /\ op = "decrement_pointer" /\ exc = "none"
    /\ path # <<>> /\ pointer > 0 /\ pointer = rowCount - 1

\* C3: path validity.  In every reachable state the selectors of the path,
\* applied in order to the document, resolve to a node: _resolve_path does
\* not reach sys.exit(1).
C3_PathValid == _resolve_path(data, path).exc = "none"

\* move_down has entered a node two or more levels below the root
C3_Witness ==
    /\ op = "move_down" /\ exc = "none"
    /\ Len(path) >= 2 /\ Len(path) > Len(before.path)
    /\ IsContainer(Node)

\* C4: in every reachable state each of the four operations completes
\* without raising an exception or terminating the process.
C4_NeverRaises ==
    op \in {"move_up", "move_down", "increment_pointer", "decrement_pointer"} => exc = "none"

\* C5: empty container.  After descending into an empty object or array the
\* row count is 0, and increment_pointer and decrement_pointer each leave the
\* pointer at 0 and do not fail.
C5_EmptyContainer ==
    /\ (op = "move_down" /\ Len(path) > Len(before.path) /\ IsContainer(Node) /\ Node.kids = <<>>)
        => (get_data(data, path).exc = "none" /\ Len(get_data(data, path).value) = 0)
    /\ (op \in {"increment_pointer", "decrement_pointer"} /\ path # <<>> /\ IsContainer(Node) /\ Node.kids = <<>>)
        => (exc = "none" /\ pointer = 0)

\* C6: descend effect.  When the row under the cursor holds an object or
\* array, move_down appends exactly one path entry (the row's raw key and the
\* pointer before the call), sets the pointer to 0, and the new path resolves
\* to the value of that row.
C6_DescendEffect ==
    [][(op' = "move_down" /\ HoldsContainer(path, pointer))
       => (/\ path' = Append(path, [key |-> RowAt(path, pointer).key.content, pointer |-> pointer])
           /\ pointer' = 0
           /\ _resolve_path(data, path') = Returned(RowAt(path, pointer).value.content))]_vars

\* C7: recoverable no-ops.  move_up with an empty path, move_down on the
\* leaf-sentinel row and move_down on a row with a scalar value each leave
\* (data, path, pointer) exactly as before.
C7_NoOps ==
    [][(\/ op' = "move_up" /\ path = <<>>
        \/ op' = "move_down" /\ HoldsLeaf(path, pointer)
        \/ op' = "move_down" /\ HoldsScalar(path, pointer))
       => UNCHANGED <<data, path, pointer>>]_vars

\* move_down has been called on a scalar row of a node below the root, with
\* other rows to move to
C7_Witness ==
    /\ op = "move_down" /\ exc = "none"
    /\ path # <<>> /\ pointer > 0
    /\ before = [path |-> path, pointer |-> pointer]
    /\ HoldsScalar(path, pointer)

\* C8: wraparound.  In a node of N >= 1 rows, N calls of increment_pointer
\* return the pointer to its starting value and so do N calls of
\* decrement_pointer; one increment from N-1 yields 0 and one decrement from
\* 0 yields N-1.
C8_Wraparound ==
    (rowCount >= 1 /\ op \in {"increment_pointer", "decrement_pointer"}) =>
        /\ streak = rowCount => pointer = origin
        /\ (op = "increment_pointer" /\ before.pointer = rowCount - 1) => pointer = 0
        /\ (op = "decrement_pointer" /\ before.pointer = 0) => pointer = rowCount - 1

\* the selectors "user" and "tags" of the worked example
SelUser == PyStr(<<117, 115, 101, 114>>)
SelTags == PyStr(<<116, 97, 103, 115>>)

\* C9: nested cursor restore.  Every move_up that pops a path entry sets the
\* pointer to the value it had at the matching move_down; on
\* {"user":{"name":"Ann","tags":["x","y"]}} descend, increment, descend lead
\* to the tags array, the first ascend restores pointer 1 and the second
\* pointer 0 with an empty path.
C9_NestedRestore ==
    [][/\ (op' = "move_up" /\ Len(path) > 0) => pointer' = marks[Len(marks)]
       /\ data = UserDoc =>
            /\ (op' = "move_down" /\ path = <<>> /\ pointer = 0)
                => (path' = <<[key |-> SelUser, pointer |-> 0]>> /\ pointer' = 0)
            /\ (op' = "increment_pointer" /\ path = <<[key |-> SelUser, pointer |-> 0]>> /\ pointer = 0)
                => pointer' = 1
            /\ (op' = "move_down" /\ path = <<[key |-> SelUser, pointer |-> 0]>> /\ pointer = 1)
                => (path' = <<[key |-> SelUser, pointer |-> 0], [key |-> SelTags, pointer |-> 1]>> /\ pointer' = 0)
            /\ (op' = "move_up" /\ Len(path) = 2) => (Len(path') = 1 /\ pointer' = 1)
            /\ (op' = "move_up" /\ Len(path) = 1) => (path' = <<>> /\ pointer' = 0)]_vars

\* C10: object row order.  For an object node get_data returns one row per
\* key, ordered by the rank of the value (scalar 0, array 1, object 2) and
\* then by the formatted string of the key; for
\* {"b":1,"a":[1,2],"c":{"x":1}} the row keys are b, a, c.
C10_ObjectRowOrder ==
    (op = "get_data" /\ Node.t = "dict") =>
        LET r == get_data(data, path)
            rank(i) == IF r.value[i].value.content.t = "dict" THEN 2
                       ELSE IF r.value[i].value.content.t = "list" THEN 1 ELSE 0
        IN /\ r.exc = "none"
           /\ Len(r.value) = Len(Node.kids)
           /\ {r.value[i].key.content : i \in 1..Len(r.value)} = {Node.kids[i].k : i \in 1..Len(Node.kids)}
           /\ \A i \in 1..Len(r.value) :
                /\ r.value[i].key.as_string = <<34>> \o r.value[i].key.content.s \o <<34>>
                /\ \E j \in 1..Len(Node.kids) :
                     Node.kids[j].k = r.value[i].key.content /\ Node.kids[j].v = r.value[i].value.content
           /\ \A i, j \in 1..Len(r.value) :
                i < j => \/ rank(i) < rank(j)
                         \/ rank(i) = rank(j) /\ StrLess(r.value[i].key.as_string, r.value[j].key.as_string)
           /\ data = SortDoc /\ path = <<>>
                => [i \in 1..Len(r.value) |-> r.value[i].key.content.s] = << <<98>>, <<97>>, <<99>> >>

\* C11: the document is never mutated.  Each of move_up, move_down,
\* increment_pointer, decrement_pointer, get_data, get_keys and get_path
\* leaves data unchanged, in every reachable state.
C11_DocumentUnchanged ==
    [][op' \in {"move_up", "move_down", "increment_pointer", "decrement_pointer",
                "get_data", "get_keys", "get_path"}
       => data' = data]_vars

\* get_keys has returned the keys of an array, below the root, whose rows
\* sorting by value shape would reorder
C11_Witness ==
    /\ op = "get_keys" /\ exc = "none" /\ path # <<>>
    /\ Node.t = "list" /\ Len(Node.kids) >= 2
    /\ IsContainer(Node.kids[1].v) /\ ~IsContainer(Node.kids[2].v)

\* C12: input translation.  Up applies exactly decrement_pointer, Down
\* exactly increment_pointer, Left exactly move_up, Right exactly move_down,
\* and every other key that is not Quit applies no operation and leaves
\* (data, path, pointer) unchanged.
C12_InputTranslation ==
    [][pc = "handle_keystroke" =>
        LET result(outcome) ==
                /\ path' = outcome.path /\ pointer' = outcome.pointer /\ exc' = outcome.exc
                /\ data' = data /\ applied' = applied + 1
        IN CASE keystroke = "KEY_UP" -> result(decrement_pointer_outcome(data, path, pointer))
             [] keystroke = "KEY_DOWN" -> result(increment_pointer_outcome(data, path, pointer))
             [] keystroke = "KEY_LEFT" -> result(move_up_outcome(data, path, pointer))
             [] keystroke = "KEY_RIGHT" -> result(move_down_outcome(data, path, pointer))
             [] OTHER -> UNCHANGED <<data, path, pointer, applied>> /\ exc' = "none"]_vars

\* Down has moved the cursor of an array below the root off its first row
C12_Witness ==
    /\ pc = "update_screen" /\ keystroke = "KEY_DOWN" /\ op = "increment_pointer"
    /\ path # <<>> /\ pointer = 1 /\ before.pointer = 0

\* C13: terminal teardown on every exit path.  Once the terminal session is
\* initialised, kill_curses eventually runs on every way the loop can end:
\* Quit, an exception from rendering or from a DataManager operation, or
\* sys.exit from path resolution.
C13_Teardown == (terminal = "curses" /\ pc \notin {"update_screen", "getch", "handle_keystroke"}) ~> (terminal = "restored")

\* the loop has ended by an exception and the terminal is restored
C13_Witness == pc = "exit" /\ terminal = "restored" /\ exc = "ZeroDivisionError"

\* C14: loop ordering.  The current state is rendered before every input
\* read, at most one operation is applied between two renders, every applied
\* operation is followed by a render before the next input read, and reading
\* Quit ends the loop without applying an operation.
C14_LoopOrdering ==
    [][/\ pc' = "getch" => (rendered' /\ applied' = 0)
       /\ applied' <= 1
       /\ (pc = "handle_keystroke" /\ applied' > applied) => pc' # "getch"
       /\ (pc = "getch" /\ keystroke' = "q") => (pc' = "kill_curses" /\ UNCHANGED <<data, path, pointer, applied>>)
       /\ keystroke = "q" => (UNCHANGED <<data, path, pointer, applied>> /\ pc' \in {"kill_curses", "exit"})]_vars

\* the screen has been drawn again after an operation that changed the state
C14_Witness ==
    /\ pc = "getch" /\ rendered /\ applied = 0
    /\ op = "update_screen" /\ keystroke = "KEY_RIGHT" /\ Len(path) = 2

\* the document with the items of the object at path p in reverse order
RECURSIVE Reordered(_, _)
Reordered(d, p) ==
    IF p = <<>> THEN
        IF d.t = "dict" THEN [d EXCEPT !.kids = [i \in 1..Len(d.kids) |-> d.kids[Len(d.kids) + 1 - i]]] ELSE d
    ELSE IF d.t = "list" THEN [d EXCEPT !.kids[Head(p).key.n + 1].v = Reordered(@, Tail(p))]
    ELSE d

\* C15: row-order determinism.  Two object nodes holding the same key/value
\* pairs in different key orders produce identical row lists from get_data,
\* so the same operation on both yields the same (path, pointer) and rows.
C15_RowOrderDeterminism ==
    (op = "get_data" /\ Node.t = "dict" /\ Len(Node.kids) >= 2) =>
        LET other == Reordered(data, path) IN
        /\ other # data
        /\ get_data(data, path).exc = "none"
        /\ get_data(other, path).exc = "none"
        /\ get_data(other, path).value = get_data(data, path).value
        /\ \A name \in {"move_up", "move_down", "increment_pointer", "decrement_pointer"} :
             /\ method_outcome(name, data, path, pointer).exc = "none"
             /\ method_outcome(name, other, path, pointer) = method_outcome(name, data, path, pointer)

\* C16: array rows.  For an array of length N get_data returns exactly N rows
\* in index order, row i with key content i and value the i-th element, not
\* re-sorted; for a scalar or null node it returns exactly one row whose key
\* is the leaf sentinel and whose value is the scalar.
C16_ArrayRows ==
    op = "get_data" =>
        LET r == get_data(data, path) IN
        /\ Node.t = "list" =>
             /\ r.exc = "none"
             /\ Len(r.value) = Len(Node.kids)
             /\ \A i \in 1..Len(Node.kids) :
                  /\ r.value[i].key.content = PyInt(i - 1)
                  /\ r.value[i].value.content = Node.kids[i].v
        /\ ~IsContainer(Node) =>
             /\ r.exc = "none"
             /\ Len(r.value) = 1
             /\ r.value[1].key.content = LEAF_NODE
             /\ r.value[1].value.content = Node

\* get_data has returned the rows of an array, below the root, that sorting
\* by value shape would reorder
C16_Witness ==
    /\ op = "get_data" /\ exc = "none" /\ path # <<>>
    /\ Node.t = "list" /\ Len(Node.kids) >= 2
    /\ IsContainer(Node.kids[1].v) /\ ~IsContainer(Node.kids[2].v)

\* "Dictionary, 0 keys", "Dictionary, 1 key", "List, 1 entry", "List, 3 entries"
TxtDictionary0Keys == <<68, 105, 99, 116, 105, 111, 110, 97, 114, 121, 44, 32, 48, 32, 107, 101, 121, 115>>
TxtDictionary1Key == <<68, 105, 99, 116, 105, 111, 110, 97, 114, 121, 44, 32, 49, 32, 107, 101, 121>>
TxtList1Entry == <<76, 105, 115, 116, 44, 32, 49, 32, 101, 110, 116, 114, 121>>
TxtList3Entries == <<76, 105, 115, 116, 44, 32, 51, 32, 101, 110, 116, 114, 105, 101, 115>>

\* C17: container formatting.  An object with exactly 1 key is "Dictionary,
\* 1 key" and with any other number N of keys "Dictionary, N keys"; an array
\* with exactly 1 entry is "List, 1 entry" and with any other number N of
\* entries "List, N entries"; a string is wrapped in double quotes.
C17_ContainerFormatting ==
    op = "stringify_value" =>
        LET N == Len(data.kids)
            numeral == <<48 + N>>
        IN /\ (data.t = "dict" /\ N = 1) => text = TxtDictionary1Key
           /\ (data.t = "dict" /\ N = 0) => text = TxtDictionary0Keys
           /\ (data.t = "dict" /\ N # 1 /\ N < 10) =>
                text = <<68, 105, 99, 116, 105, 111, 110, 97, 114, 121, 44, 32>> \o numeral \o <<32, 107, 101, 121, 115>>
           /\ (data.t = "list" /\ N = 1) => text = TxtList1Entry
           /\ (data.t = "list" /\ N = 3) => text = TxtList3Entries
           /\ (data.t = "list" /\ N # 1 /\ N < 10) =>
                text = <<76, 105, 115, 116, 44, 32>> \o numeral \o <<32, 101, 110, 116, 114, 105, 101, 115>>
           /\ data.t = "str" =>
                /\ Len(text) = Len(data.s) + 2
                /\ text[1] = 34 /\ text[Len(text)] = 34
                /\ SubSeq(text, 2, Len(text) - 1) = data.s

\* an object of one key has been formatted
C17_Witness ==
    /\ op = "stringify_value" /\ data.t = "dict" /\ Len(data.kids) = 1
    /\ text = TxtDictionary1Key

\* the breadcrumb by its description: "root", then "/" and the selector for
\* each path entry, a string in double quotes and an index as a bare number
RECURSIVE Breadcrumb(_)
Breadcrumb(p) ==
    IF p = <<>> THEN <<114, 111, 111, 116>>
    ELSE LET selector == p[Len(p)].key IN
         Breadcrumb(SubSeq(p, 1, Len(p) - 1)) \o <<47>>
            \o (IF selector.t = "str" THEN <<34>> \o selector.s \o <<34>>
                ELSE IF selector.n < 10 THEN <<48 + selector.n>>
                ELSE <<48 + (selector.n \div 10), 48 + (selector.n % 10)>>)

\* C18: breadcrumb.  In every reachable state the breadcrumb is "root"
\* followed by one "/"-separated segment per path entry in path order, so it
\* has len(path)+1 segments; a string selector is rendered in double quotes
\* and an array index as a bare number.  (The second conjunct is the
\* breadcrumb of the path extended by a key of the current object.)
C18_Breadcrumb ==
    /\ path_str(path) = Breadcrumb(path)
    /\ Cardinality({i \in 1..Len(path_str(path)) : path_str(path)[i] = 47}) = Len(path)
    /\ Node.t = "dict" =>
         \A i \in 1..Len(Node.kids) :
            path_str(Append(path, [key |-> Node.kids[i].k, pointer |-> pointer]))
                = Breadcrumb(path) \o <<47, 34>> \o Node.kids[i].k.s \o <<34>>

\* get_path has been called two or more levels below the root, at an index
\* other than 0
C18_Witness ==
    /\ op = "get_path" /\ Len(path) >= 2
    /\ path[Len(path)].key.n > 0

\* C19: the current node is a scalar or null only if the path is empty: a
\* non-empty path resolves to an object or array, and the leaf-sentinel row
\* appears only when the document root is a scalar.
C19_LeafOnlyAtRoot ==
    /\ path # <<>> => IsContainer(Node)
    /\ LET rows == Rows(Node) IN
       (\E i \in 1..Len(rows) : rows[i].key.content = LEAF_NODE)
         => (path = <<>> /\ ~IsContainer(data))

\* move_down has entered a non-empty container from the root
C19_Witness ==
    /\ op = "move_down" /\ exc = "none"
    /\ Len(path) = 1 /\ before.path = <<>>
    /\ IsContainer(Node) /\ Node.kids # <<>>

\* C20: for every path entry (selector, rememberedCursor) at depth i,
\* rememberedCursor is a valid index into the row list of the node the first
\* i entries resolve to and the row at that index has raw key selector; so
\* after move_up the cursor rests on the row of the container just left.
C20_RememberedCursor ==
    /\ \A i \in 1..Len(path) :
         LET above == SubSeq(path, 1, i - 1) IN
         /\ OnRow(above, path[i].pointer)
         /\ RowAt(above, path[i].pointer).key.content = path[i].key
    /\ (op = "move_up" /\ before.path # <<>>) =>
         /\ OnRow(path, pointer)
         /\ RowAt(path, pointer).value.content = NodeAt(before.path)

\* move_up has left a container that was not the first row of its parent
C20_Witness ==
    /\ op = "move_up" /\ Len(before.path) = 2 /\ Len(path) = 1
    /\ pointer > 0 /\ RowAt(path, pointer).value.content = NodeAt(before.path)

====
